---- MODULE Spec2Model ----
(***************************************************************************)
(* Model of the on-device control loop of the environment monitor          *)
(* (MQ2_DHT11_Train_CallAPIVer/main.py): the gas and temperature alarm     *)
(* state machines with hysteresis, the Line alert de-duplication flags,    *)
(* the MQTT command handler, the buzzer policy, the climate sensor, the     *)
(* telemetry it publishes and the main loop with its error and interrupt   *)
(* handling (Spec); and of one call of the hand-built HTTP client that     *)
(* delivers a Line notification (HttpSpec).                                *)
(*                                                                         *)
(* Temperatures are whole degrees (DHT_TYPE = "DHT11" reports integers).   *)
(* Wall-clock time is kept relative: *_age is time.time() minus the        *)
(* variable of that name, saturated at AgeCap; the loop only ever compares *)
(* such a difference with the 2 second intervals.                          *)
(***************************************************************************)
EXTENDS Integers, Sequences, FiniteSets, TLC

\* ---------------------------------------------------------------- bounds
\* longest time (seconds) a blocking step of the loop takes in the model
MaxStep == 1
\* the per-episode alert counters saturate here
MaxAlertCount == 2
\* bytes kept of what a peer sends after its response without closing
MaxTrickle == 2
\* most events in the body of one webhook request
MaxEvents == 2
\* the count of sock.read calls is kept modulo this
ReadsModulus == 16

\* ------------------------------------------------------ program constants
GAS_THRESHOLD_DEFAULT == 1500
TEMP_THRESHOLD_DEFAULT == 35
HYSTERESIS == 100
TEMP_HYSTERESIS == 1
DHT_INTERVAL == 2
PUBLISH_INTERVAL == 2
BACKOFF_SECONDS == 5
DUTY_ON == 512
DUTY_OFF == 0

\* ages saturate at the largest interval they are compared with
AgeCap == IF DHT_INTERVAL > PUBLISH_INTERVAL THEN DHT_INTERVAL ELSE PUBLISH_INTERVAL

\* ------------------------------------------------------------------ inputs
\* averaged ADC readings the gas sensor may deliver
GasValues == {1300, 1400, 1500, 1600}
\* temperatures the DHT sensor may deliver
TempValues == {33, 34, 35, 36}

\* digits of a decimal string, most significant first
RECURSIVE DigitsToInt(_)
DigitsToInt(s) ==
    IF Len(s) = 0 THEN 0
    ELSE 10 * DigitsToInt(SubSeq(s, 1, Len(s) - 1)) + s[Len(s)]

\* the "value" field of a command: absent/null, a JSON integer, a JSON number
\* n.f with a fractional digit f, a string of decimal digits, a string "n.f",
\* or a string that is no number
NoValue == [t |-> "none"]
NumValue(n) == [t |-> "num", n |-> n]
FracValue(n, f) == [t |-> "frac", n |-> n, f |-> f]
StrValue(s) == [t |-> "str", s |-> s]
FracStrValue(s, f) == [t |-> "fracstr", s |-> s, f |-> f]
BadValue == [t |-> "bad"]

\* int(value): truncates a number, parses a string of digits only;
\* ok = FALSE stands for ValueError / TypeError
ToInt(v) ==
    IF v.t = "num" THEN [ok |-> TRUE, n |-> v.n]
    ELSE IF v.t = "frac" THEN [ok |-> TRUE, n |-> v.n]
    ELSE IF v.t = "str" THEN [ok |-> TRUE, n |-> DigitsToInt(v.s)]
    ELSE [ok |-> FALSE, n |-> 0]

\* float(value): n + f/10; ok = FALSE stands for ValueError / TypeError
ToFloat(v) ==
    IF v.t = "num" THEN [ok |-> TRUE, n |-> v.n, f |-> 0]
    ELSE IF v.t = "frac" THEN [ok |-> TRUE, n |-> v.n, f |-> v.f]
    ELSE IF v.t = "str" THEN [ok |-> TRUE, n |-> DigitsToInt(v.s), f |-> 0]
    ELSE IF v.t = "fracstr" THEN [ok |-> TRUE, n |-> DigitsToInt(v.s), f |-> v.f]
    ELSE [ok |-> FALSE, n |-> 0, f |-> 0]

\* "absent": a JSON object without a command field
PlainCommands == {"silence", "enable", "disable", "reset", "unknown", "absent"}
GasThresholdValues ==
    {NoValue, BadValue, NumValue(1600), StrValue(<<1, 5, 0, 0>>),
     FracValue(1600, 5), FracStrValue(<<1, 5, 0, 0>>, 5)}
\* the temperature thresholds sent are whole degrees
TempThresholdValues == {NoValue, BadValue, NumValue(36), StrValue(<<3, 5>>)}

\* payloads that may be pending on the buzzer control topic; json = FALSE is
\* a payload that is no JSON object (json.loads or data.get raises)
Messages ==
    [json : {TRUE}, command : PlainCommands, value : {NoValue}]
    \cup [json : {TRUE}, command : {"set_gas_threshold"}, value : GasThresholdValues]
    \cup [json : {TRUE}, command : {"set_temp_threshold"}, value : TempThresholdValues]
    \cup [json : {FALSE}, command : {"unknown"}, value : {NoValue}]

NoMessage == [json |-> FALSE, command |-> "none", value |-> NoValue]

\* ------------------------------------------------------------------- state
VARIABLES
    pc,                 \* position of main()
    buzzer_enabled,
    gas_alarm_active,
    temp_alarm_active,
    manual_silence,
    client,             \* "none" | "connected" | "lost" | "failed" | "disconnected"
    current_temp,       \* last temperature read from the sensor
    current_humidity,   \* last humidity read from the sensor
    gas_line_notified,
    temp_line_notified,
    GAS_THRESHOLD,
    TEMP_THRESHOLD,
    buzzer_duty,        \* duty of the buzzer PWM
    gas_data,           \* raw value of this iteration's gas sample
    temp_data,          \* this iteration's climate sample, or NoSample
    now_age,            \* time.time() - now
    last_dht_read_age,  \* time.time() - last_dht_read
    last_publish_age,   \* time.time() - last_publish
    dht_read_age,       \* time since dht_sensor.measure() was last called
    dht_due,            \* now - last_dht_read >= 2, for this iteration's now
    publish_due,        \* now - last_publish >= 2, for this iteration's now
    msg,                \* message handled by this iteration's check_msg
    gas_sent,           \* broadcast made by this iteration's check_gas_alarm
    temp_sent,          \* broadcast made by this iteration's check_temp_alarm
    gas_log,            \* kind this iteration's check_gas_alarm gave publish_alarm_log
    temp_log,           \* kind this iteration's check_temp_alarm gave publish_alarm_log
    gas_entered,        \* gas went Normal->Active in this iteration
    temp_entered,       \* temp went Normal->Active in this iteration
    temp_payload,       \* climate telemetry just handed to client.publish
    gas_alerts,         \* alert broadcasts attempted in the current gas episode
    temp_alerts,        \* alert broadcasts attempted in the current temp episode
    exit_cause,         \* why main() ended: "none" | "wifi" | "mqtt" | "interrupt_*"
    http_pc,            \* notification call: "idle" | "call" | "read" | "done"
    caller,             \* "send" (send_line_notification) | "broadcast"
    url,                \* what FASTAPI_URL looks like
    transport,          \* the step of the exchange at which the network fails
    wire,               \* response bytes the peer has yet to deliver
    wire_end,           \* what sock.read meets after them: "eof" | "timeout" |
                        \* "more" (the peer keeps sending); or "interrupt":
                        \* a KeyboardInterrupt arrives during a sock.read
    response,           \* bytes accumulated by the read loop
    returned,           \* value returned to the alarm machine, "none" before
    peer_sends,         \* all the bytes the peer delivers during the call
    reads,              \* sock.read calls that returned bytes (mod ReadsModulus)
    result,             \* (status_code, body) returned by http_post_with_ssl
    payload,            \* message to send: the UTF-8 width of each character
    request,            \* Content-Length and body size of the request written
    webhook_pc,         \* gateway webhook: "idle" | "received" | "events" | "done"
    LINE_CHANNEL_SECRET,  \* the gateway's channel secret, "" when not set
    body,               \* the request body: the events it lists
    x_line_signature,   \* the X-Line-Signature header, None when absent
    webhook_status,     \* status code of the webhook's response, None before
    handled,            \* events the for loop has gone through
    replies,            \* reply tokens handed to auto_reply
    raw_values,         \* raw gas values to evaluate one after the other
    tick,               \* how many of them have been evaluated
    alarm_states        \* the gas alarm state after each of these evaluations

loop_vars ==
    <<pc, buzzer_enabled, gas_alarm_active, temp_alarm_active,
          manual_silence, client, current_temp, current_humidity,
          gas_line_notified,
          temp_line_notified, GAS_THRESHOLD, TEMP_THRESHOLD, buzzer_duty,
          gas_data, temp_data, now_age, last_dht_read_age, last_publish_age,
          dht_read_age, dht_due, publish_due, msg, gas_sent, temp_sent,
          gas_log, temp_log, gas_entered, temp_entered, temp_payload, gas_alerts, temp_alerts,
          exit_cause>>

http ==
    <<http_pc, caller, url, transport, wire, wire_end, response, returned,
      peer_sends, reads, result, payload, request>>

\* what a call is given and what the network will do: fixed during the call
http_given == <<caller, url, transport, wire_end, peer_sends, payload>>

\* the status_code of (None, str(e)), returned by "except Exception"
None == -1

NoResult == [status_code |-> None, body |-> <<>>]

NoRequest == [content_length |-> 0, body_bytes |-> 0]

replay == <<raw_values, tick, alarm_states>>

gateway ==
    <<webhook_pc, LINE_CHANNEL_SECRET, body, x_line_signature,
      webhook_status, handled, replies>>

vars == <<loop_vars, http, replay, gateway>>

flags == <<buzzer_enabled, gas_alarm_active, temp_alarm_active,
           manual_silence, gas_line_notified, temp_line_notified,
           GAS_THRESHOLD, TEMP_THRESHOLD>>

clock == <<now_age, last_dht_read_age, last_publish_age, dht_read_age>>

\* the globals read_dht_sensor keeps between calls
last_good == <<current_temp, current_humidity>>

observed == <<msg, gas_sent, temp_sent, gas_log, temp_log, gas_entered,
              temp_entered>>

NoSample == [temperature |-> 0, humidity |-> 0, valid |-> FALSE, read |-> FALSE]

NoPayload ==
    [temperature |-> 0, humidity |-> 0, temp_threshold |-> 0,
     alarm |-> FALSE, valid |-> FALSE]

SendResults == {"none", "alert_ok", "alert_fail", "clear_ok", "clear_fail"}

LoopInit ==
    /\ pc = "connect_wifi"
    /\ buzzer_enabled = TRUE
    /\ gas_alarm_active = FALSE
    /\ temp_alarm_active = FALSE
    /\ manual_silence = FALSE
    /\ client = "none"
    /\ current_temp = 0
    /\ current_humidity = 0
    /\ gas_line_notified = FALSE
    /\ temp_line_notified = FALSE
    /\ GAS_THRESHOLD = GAS_THRESHOLD_DEFAULT
    /\ TEMP_THRESHOLD = TEMP_THRESHOLD_DEFAULT
    /\ buzzer_duty = DUTY_OFF
    /\ gas_data = 0
    /\ temp_data = NoSample
    /\ now_age = AgeCap
    /\ last_dht_read_age = AgeCap
    /\ last_publish_age = AgeCap
    /\ dht_read_age = AgeCap
    /\ dht_due = FALSE
    /\ publish_due = FALSE
    /\ msg = NoMessage
    /\ gas_sent = "none"
    /\ temp_sent = "none"
    /\ gas_log = "none"
    /\ temp_log = "none"
    /\ gas_entered = FALSE
    /\ temp_entered = FALSE
    /\ temp_payload = NoPayload
    /\ gas_alerts = 0
    /\ temp_alerts = 0
    /\ exit_cause = "none"

\* no notification call is followed
HttpIdle ==
    /\ http_pc = "idle"
    /\ caller = "broadcast"
    /\ url = "https"
    /\ transport = "ok"
    /\ wire = <<>>
    /\ wire_end = "eof"
    /\ response = <<>>
    /\ returned = "none"
    /\ peer_sends = <<>>
    /\ reads = 0
    /\ result = NoResult
    /\ payload = <<>>
    /\ request = NoRequest

\* no sequence of values is replayed
ReplayIdle ==
    /\ raw_values = <<>>
    /\ tick = 0
    /\ alarm_states = <<>>

\* Header(None): the request has no X-Line-Signature header
NoHeader == [t |-> "absent"]

\* no webhook request is being served
GatewayIdle ==
    /\ webhook_pc = "idle"
    /\ LINE_CHANNEL_SECRET = ""
    /\ body = <<>>
    /\ x_line_signature = NoHeader
    /\ webhook_status = None
    /\ handled = 0
    /\ replies = 0

Init == LoopInit /\ HttpIdle /\ ReplayIdle /\ GatewayIdle

\* ----------------------------------------------------------------- helpers
Sat(x) == IF x > AgeCap THEN AgeCap ELSE x

\* d seconds pass
Elapse(d) ==
    /\ now_age' = Sat(now_age + d)
    /\ last_dht_read_age' = Sat(last_dht_read_age + d)
    /\ last_publish_age' = Sat(last_publish_age + d)
    /\ dht_read_age' = Sat(dht_read_age + d)

Bump(n, sent) ==
    IF sent \in {"alert_ok", "alert_fail"}
    THEN (IF n + 1 > MaxAlertCount THEN MaxAlertCount ELSE n + 1)
    ELSE n

\* ------------------------------------------------------- command handler
\* the globals mqtt_callback may assign and the buzzer, left as they are;
\* raised: an exception leaves mqtt_callback
on_nothing ==
    [buzzer_enabled |-> buzzer_enabled,
     manual_silence |-> manual_silence,
     TEMP_THRESHOLD |-> TEMP_THRESHOLD,
     GAS_THRESHOLD |-> GAS_THRESHOLD,
     buzzer_duty |-> buzzer_duty,
     raised |-> FALSE]

\* json.loads(msg) or data.get(...) raises: except Exception, only printed
on_bad_payload == on_nothing

\* "silence": manual_silence = True; buzzer_off()
on_silence == [on_nothing EXCEPT !.manual_silence = TRUE, !.buzzer_duty = DUTY_OFF]

\* "enable": buzzer_enabled = True; manual_silence = False
on_enable == [on_nothing EXCEPT !.buzzer_enabled = TRUE, !.manual_silence = FALSE]

\* "disable": buzzer_enabled = False; buzzer_off()
on_disable == [on_nothing EXCEPT !.buzzer_enabled = FALSE, !.buzzer_duty = DUTY_OFF]

\* "reset": manual_silence = False
on_reset == [on_nothing EXCEPT !.manual_silence = FALSE]

on_set_temp_threshold_uncaught(v) ==
    IF v.t # "none" /\ ToFloat(v).ok
    THEN [on_nothing EXCEPT !.TEMP_THRESHOLD = ToFloat(v).n]
    ELSE [on_nothing EXCEPT !.raised = (v.t # "none")]

\* "set_temp_threshold": if value is not None: TEMP_THRESHOLD = float(value)
on_set_temp_threshold(v) ==
    IF v.t # "none" /\ ToFloat(v).ok
    THEN [on_nothing EXCEPT !.TEMP_THRESHOLD = ToFloat(v).n]
    ELSE on_nothing

on_set_gas_threshold_numbers_only(v) ==
    IF v.t \in {"num", "frac"}
    THEN [on_nothing EXCEPT !.GAS_THRESHOLD = ToInt(v).n]
    ELSE on_nothing

\* "set_gas_threshold": if value is not None: GAS_THRESHOLD = int(value)
on_set_gas_threshold(v) ==
    IF v.t # "none" /\ ToInt(v).ok
    THEN [on_nothing EXCEPT !.GAS_THRESHOLD = ToInt(v).n]
    ELSE on_nothing

on_other_command_resets == [on_nothing EXCEPT !.manual_silence = FALSE]

\* no branch of the if/elif chain matches data.get("command")
on_other_command == on_nothing

mqtt_callback_silence_flag_only(m) ==
    IF ~m.json THEN on_bad_payload
    ELSE IF m.command = "silence" THEN [on_nothing EXCEPT !.manual_silence = TRUE]
    ELSE IF m.command = "enable" THEN on_enable
    ELSE IF m.command = "disable" THEN on_disable
    ELSE IF m.command = "reset" THEN on_reset
    ELSE IF m.command = "set_temp_threshold" THEN on_set_temp_threshold(m.value)
    ELSE IF m.command = "set_gas_threshold" THEN on_set_gas_threshold(m.value)
    ELSE on_other_command

\* mqtt_callback: the values of the globals it may assign, and of the buzzer
mqtt_callback(m) ==
    IF ~m.json THEN on_bad_payload
    ELSE IF m.command = "silence" THEN on_silence
    ELSE IF m.command = "enable" THEN on_enable
    ELSE IF m.command = "disable" THEN on_disable
    ELSE IF m.command = "reset" THEN on_reset
    ELSE IF m.command = "set_temp_threshold" THEN on_set_temp_threshold(m.value)
    ELSE IF m.command = "set_gas_threshold" THEN on_set_gas_threshold(m.value)
    ELSE on_other_command

\* --------------------------------------------------------- alarm machines
SendResult(kind, send_ok) ==
    IF kind = "alert" THEN (IF send_ok THEN "alert_ok" ELSE "alert_fail")
    ELSE (IF send_ok THEN "clear_ok" ELSE "clear_fail")

\* what check_gas_alarm leaves when it changes nothing
gas_unchanged ==
    [active |-> gas_alarm_active,
     notified |-> gas_line_notified,
     silence |-> manual_silence,
     log |-> "none",
     sent |-> "none"]

gas_over_strict(value) == value > GAS_THRESHOLD

\* value >= GAS_THRESHOLD
gas_over(value) == value >= GAS_THRESHOLD

gas_under_inclusive(value) == value <= GAS_THRESHOLD - HYSTERESIS

gas_under_startup_threshold(value) == value < GAS_THRESHOLD_DEFAULT - HYSTERESIS

\* value < (GAS_THRESHOLD - HYSTERESIS)
gas_under(value) == value < GAS_THRESHOLD - HYSTERESIS

gas_alarm_enter_keeps_silence(send_ok) ==
    [active |-> TRUE,
     silence |-> manual_silence,
     log |-> "gas",
     sent |-> IF ~gas_line_notified THEN SendResult("alert", send_ok) ELSE "none",
     notified |-> IF ~gas_line_notified /\ send_ok THEN TRUE ELSE gas_line_notified]

gas_alarm_enter_notified_always(send_ok) ==
    [active |-> TRUE,
     silence |-> FALSE,
     log |-> "gas",
     sent |-> IF ~gas_line_notified THEN SendResult("alert", send_ok) ELSE "none",
     notified |-> TRUE]

\* the body of "if not gas_alarm_active:" -- the alarm is entered;
\* send_ok is what send_line_broadcast returns
gas_alarm_enter(send_ok) ==
    [active |-> TRUE,
     silence |-> FALSE,
     log |-> "gas",
     sent |-> IF ~gas_line_notified THEN SendResult("alert", send_ok) ELSE "none",
     notified |-> IF ~gas_line_notified /\ send_ok THEN TRUE ELSE gas_line_notified]

gas_alarm_clear_reset_on_success(send_ok) ==
    [active |-> FALSE,
     notified |-> IF send_ok THEN FALSE ELSE gas_line_notified,
     silence |-> manual_silence,
     log |-> "gas_clear",
     sent |-> SendResult("clear", send_ok)]

gas_alarm_clear_unlogged(send_ok) ==
    [active |-> FALSE,
     notified |-> FALSE,
     silence |-> manual_silence,
     log |-> "none",
     sent |-> SendResult("clear", send_ok)]

gas_alarm_clear_keeps_notified(send_ok) ==
    [active |-> FALSE,
     notified |-> gas_line_notified,
     silence |-> manual_silence,
     log |-> "gas_clear",
     sent |-> SendResult("clear", send_ok)]

\* the body of "if gas_alarm_active:" -- the alarm is cleared
gas_alarm_clear(send_ok) ==
    [active |-> FALSE,
     notified |-> FALSE,
     silence |-> manual_silence,
     log |-> "gas_clear",
     sent |-> SendResult("clear", send_ok)]

check_gas_alarm_every_tick(value, send_ok) ==
    IF gas_over(value)
    THEN [gas_alarm_enter(send_ok) EXCEPT
            !.silence = IF gas_alarm_active THEN manual_silence ELSE FALSE,
            !.log = IF gas_alarm_active THEN "none" ELSE "gas"]
    ELSE IF gas_under(value)
    THEN (IF gas_alarm_active THEN gas_alarm_clear(send_ok) ELSE gas_unchanged)
    ELSE gas_unchanged

\* check_gas_alarm(value)
check_gas_alarm(value, send_ok) ==
    IF gas_over(value)
    THEN (IF ~gas_alarm_active THEN gas_alarm_enter(send_ok) ELSE gas_unchanged)
    ELSE IF gas_under(value)
    THEN (IF gas_alarm_active THEN gas_alarm_clear(send_ok) ELSE gas_unchanged)
    ELSE gas_unchanged

\* what check_temp_alarm leaves when it changes nothing
temp_unchanged ==
    [active |-> temp_alarm_active,
     notified |-> temp_line_notified,
     silence |-> manual_silence,
     log |-> "none",
     sent |-> "none"]

\* value >= TEMP_THRESHOLD
temp_over(value) == value >= TEMP_THRESHOLD

\* value < (TEMP_THRESHOLD - TEMP_HYSTERESIS)
temp_under(value) == value < TEMP_THRESHOLD - TEMP_HYSTERESIS

\* the body of "if not temp_alarm_active:" -- the alarm is entered
temp_alarm_enter(send_ok) ==
    [active |-> TRUE,
     silence |-> FALSE,
     log |-> "temp",
     sent |-> IF ~temp_line_notified THEN SendResult("alert", send_ok) ELSE "none",
     notified |-> IF ~temp_line_notified /\ send_ok THEN TRUE ELSE temp_line_notified]

\* the body of "if temp_alarm_active:" -- the alarm is cleared
temp_alarm_clear(send_ok) ==
    [active |-> FALSE,
     notified |-> FALSE,
     silence |-> manual_silence,
     log |-> "temp_clear",
     sent |-> SendResult("clear", send_ok)]

\* check_temp_alarm(value)
check_temp_alarm(value, send_ok) ==
    IF temp_over(value)
    THEN (IF ~temp_alarm_active THEN temp_alarm_enter(send_ok) ELSE temp_unchanged)
    ELSE IF temp_under(value)
    THEN (IF temp_alarm_active THEN temp_alarm_clear(send_ok) ELSE temp_unchanged)
    ELSE temp_unchanged

\* ------------------------------------------------------------------ buzzer
update_buzzer_ignores_silence ==
    IF (gas_alarm_active \/ temp_alarm_active) /\ buzzer_enabled
    THEN DUTY_ON ELSE DUTY_OFF

\* update_buzzer: the duty it sets
update_buzzer ==
    IF (gas_alarm_active \/ temp_alarm_active) /\ buzzer_enabled /\ ~manual_silence
    THEN DUTY_ON ELSE DUTY_OFF

\* ---------------------------------------------------------------- sensors
\* the humidity the sensor reports together with temperature t
HumidityAt(t) == 2 * t

read_dht_sensor_failure_zeroes(ok, t, h) ==
    IF ok
    THEN [data |-> [temperature |-> t, humidity |-> h, valid |-> TRUE, read |-> TRUE],
          current_temp |-> t,
          current_humidity |-> h]
    ELSE [data |-> [temperature |-> 0, humidity |-> 0, valid |-> FALSE, read |-> TRUE],
          current_temp |-> 0,
          current_humidity |-> 0]

\* read_dht_sensor: the dict it returns (read marks it as a sample taken) and
\* the two globals it leaves. ok is whether dht_sensor.measure() succeeds;
\* temperature() and humidity() only decode the buffer measure() filled.
read_dht_sensor(ok, t, h) ==
    IF ok
    THEN [data |-> [temperature |-> t, humidity |-> h, valid |-> TRUE, read |-> TRUE],
          current_temp |-> t,
          current_humidity |-> h]
    ELSE [data |-> [temperature |-> current_temp, humidity |-> current_humidity,
                    valid |-> FALSE, read |-> TRUE],
          current_temp |-> current_temp,
          current_humidity |-> current_humidity]

\* the dict main() builds for publish_temp_data
climate_reading ==
    [temperature |-> current_temp, humidity |-> current_humidity, valid |-> TRUE]

\* publish_temp_data: the payload handed to client.publish
publish_temp_data(data) ==
    [temperature |-> data.temperature,
     humidity |-> data.humidity,
     temp_threshold |-> TEMP_THRESHOLD,
     alarm |-> temp_alarm_active,
     valid |-> data.valid]

\* ------------------------------------------------------------- connection
\* connect_mqtt: the client it leaves in the global, and what it returns
connect_mqtt(ok) ==
    IF ok THEN [client |-> "connected", result |-> TRUE]
    ELSE [client |-> "failed", result |-> FALSE]

\* ------------------------------------------------------------------ main()
StartupPcs == {"connect_wifi", "connect_mqtt", "test_line", "warmup"}
TryPcs == {"check_msg", "gas", "dht", "update_buzzer", "publish"}
HandlerPcs == {"backoff", "reconnect"}
LoopPcs == TryPcs \cup HandlerPcs

\* if not connect_wifi(): return
ConnectWifi ==
    /\ pc = "connect_wifi"
    /\ \E ok \in BOOLEAN :
         /\ pc' = IF ok THEN "connect_mqtt" ELSE "stopped"
         /\ exit_cause' = IF ok THEN exit_cause ELSE "wifi"
    /\ UNCHANGED <<flags, client, last_good, buzzer_duty, gas_data, temp_data,
                   clock, dht_due, publish_due, observed, temp_payload,
                   gas_alerts, temp_alerts>>
    /\ UNCHANGED <<http, replay, gateway>>

\* if not connect_mqtt(): return
ConnectMqtt ==
    /\ pc = "connect_mqtt"
    /\ \E ok \in BOOLEAN :
         /\ client' = connect_mqtt(ok).client
         /\ pc' = IF connect_mqtt(ok).result THEN "test_line" ELSE "stopped"
         /\ exit_cause' = IF connect_mqtt(ok).result THEN exit_cause ELSE "mqtt"
    /\ UNCHANGED <<flags, last_good, buzzer_duty, gas_data, temp_data, clock,
                   dht_due, publish_due, observed, temp_payload, gas_alerts,
                   temp_alerts>>
    /\ UNCHANGED <<http, replay, gateway>>

\* test_line_connection(): the startup broadcast, its result is only printed
TestLine ==
    /\ pc = "test_line"
    /\ pc' = "warmup"
    /\ UNCHANGED <<flags, client, last_good, buzzer_duty, gas_data, temp_data,
                   clock, dht_due, publish_due, observed, temp_payload,
                   gas_alerts, temp_alerts, exit_cause>>
    /\ UNCHANGED <<http, replay, gateway>>

\* a warm-up that samples the gas sensor and evaluates it
Warmup_evaluates ==
    /\ pc = "warmup"
    /\ pc' = "check_msg"
    /\ now_age' = AgeCap
    /\ last_dht_read_age' = AgeCap
    /\ last_publish_age' = AgeCap
    /\ dht_read_age' = AgeCap
    /\ \E v \in GasValues :
         /\ gas_alarm_active' = check_gas_alarm(v, TRUE).active
         /\ gas_line_notified' = check_gas_alarm(v, TRUE).notified
    /\ UNCHANGED <<buzzer_enabled, temp_alarm_active, manual_silence,
                   temp_line_notified, GAS_THRESHOLD, TEMP_THRESHOLD, client,
                   last_good, buzzer_duty, gas_data, temp_data, dht_due,
                   publish_due, observed, temp_payload, gas_alerts,
                   temp_alerts, exit_cause>>
    /\ UNCHANGED <<http, replay, gateway>>

\* the 20 s warm-up countdown; last_publish = 0; last_dht_read = 0
Warmup ==
    /\ pc = "warmup"
    /\ pc' = "check_msg"
    /\ now_age' = AgeCap
    /\ last_dht_read_age' = AgeCap
    /\ last_publish_age' = AgeCap
    /\ dht_read_age' = AgeCap
    /\ UNCHANGED <<flags, client, last_good, buzzer_duty, gas_data, temp_data,
                   dht_due, publish_due, observed, temp_payload, gas_alerts,
                   temp_alerts, exit_cause>>
    /\ UNCHANGED <<http, replay, gateway>>

\* the per-iteration locals before an iteration has assigned them
FreshIteration ==
    /\ msg' = NoMessage
    /\ gas_sent' = "none"
    /\ temp_sent' = "none"
    /\ gas_log' = "none"
    /\ temp_log' = "none"
    /\ gas_entered' = FALSE
    /\ temp_entered' = FALSE
    /\ gas_data' = 0
    /\ temp_data' = NoSample
    /\ dht_due' = FALSE
    /\ publish_due' = FALSE

\* now = time.time(), and the two interval tests made with this now
TakeNow ==
    /\ now_age' = 0
    /\ dht_due' = (last_dht_read_age >= DHT_INTERVAL)
    /\ publish_due' = (last_publish_age >= PUBLISH_INTERVAL)
    /\ UNCHANGED <<last_dht_read_age, last_publish_age, dht_read_age>>

\* client.check_msg() with nothing pending; now = time.time()
PollIdle ==
    /\ pc = "check_msg"
    /\ client \in {"connected", "lost", "failed"}
    /\ TakeNow
    /\ temp_payload' = NoPayload
    /\ pc' = "gas"
    /\ UNCHANGED <<flags, client, last_good, buzzer_duty, gas_data, temp_data,
                   observed, gas_alerts, temp_alerts, exit_cause>>
    /\ UNCHANGED <<http, replay, gateway>>

PollMessage_not_applied ==
    /\ pc = "check_msg"
    /\ client = "connected"
    /\ \E m \in Messages : msg' = m
    /\ TakeNow
    /\ temp_payload' = NoPayload
    /\ pc' = "gas"
    /\ UNCHANGED <<flags, buzzer_duty, client, last_good, gas_data, temp_data,
                   gas_sent, temp_sent, gas_log, temp_log, gas_entered,
                   temp_entered, gas_alerts,
                   temp_alerts, exit_cause>>
    /\ UNCHANGED <<http, replay, gateway>>

\* a handler in which reset also ends the gas alarm
PollMessage_reset_clears_alarm ==
    /\ pc = "check_msg"
    /\ client = "connected"
    /\ \E m \in Messages :
         /\ msg' = m
         /\ buzzer_enabled' = mqtt_callback(m).buzzer_enabled
         /\ manual_silence' = mqtt_callback(m).manual_silence
         /\ TEMP_THRESHOLD' = mqtt_callback(m).TEMP_THRESHOLD
         /\ GAS_THRESHOLD' = mqtt_callback(m).GAS_THRESHOLD
         /\ buzzer_duty' = mqtt_callback(m).buzzer_duty
         /\ gas_alarm_active' =
              IF m.json /\ m.command = "reset" THEN FALSE ELSE gas_alarm_active
         /\ IF mqtt_callback(m).raised
            THEN /\ pc' = "backoff"
                 /\ UNCHANGED <<clock, dht_due, publish_due>>
            ELSE /\ pc' = "gas"
                 /\ TakeNow
    /\ temp_payload' = NoPayload
    /\ UNCHANGED <<temp_alarm_active, gas_line_notified,
                   temp_line_notified, client, last_good, gas_data, temp_data,
                   gas_sent, temp_sent, gas_log, temp_log, gas_entered,
                   temp_entered, gas_alerts, temp_alerts, exit_cause>>
    /\ UNCHANGED <<http, replay, gateway>>

\* client.check_msg() delivers one message to mqtt_callback; now = time.time()
\* (an exception leaving mqtt_callback would leave check_msg too)
PollMessage ==
    /\ pc = "check_msg"
    /\ client = "connected"
    /\ \E m \in Messages :
         /\ msg' = m
         /\ buzzer_enabled' = mqtt_callback(m).buzzer_enabled
         /\ manual_silence' = mqtt_callback(m).manual_silence
         /\ TEMP_THRESHOLD' = mqtt_callback(m).TEMP_THRESHOLD
         /\ GAS_THRESHOLD' = mqtt_callback(m).GAS_THRESHOLD
         /\ buzzer_duty' = mqtt_callback(m).buzzer_duty
         /\ IF mqtt_callback(m).raised
            THEN /\ pc' = "backoff"
                 /\ UNCHANGED <<clock, dht_due, publish_due>>
            ELSE /\ pc' = "gas"
                 /\ TakeNow
    /\ temp_payload' = NoPayload
    /\ UNCHANGED <<gas_alarm_active, temp_alarm_active, gas_line_notified,
                   temp_line_notified, client, last_good, gas_data, temp_data,
                   gas_sent, temp_sent, gas_log, temp_log, gas_entered,
                   temp_entered, gas_alerts,
                   temp_alerts, exit_cause>>
    /\ UNCHANGED <<http, replay, gateway>>

\* client.check_msg() raises (connection lost): except Exception
PollError ==
    /\ pc = "check_msg"
    /\ client \in {"connected", "lost", "failed"}
    /\ client' = IF client = "connected" THEN "lost" ELSE client
    /\ pc' = "backoff"
    /\ temp_payload' = NoPayload
    /\ UNCHANGED <<flags, last_good, buzzer_duty, gas_data, temp_data, clock,
                   dht_due, publish_due, observed, gas_alerts, temp_alerts,
                   exit_cause>>
    /\ UNCHANGED <<http, replay, gateway>>

\* gas_data = read_gas_sensor(); check_gas_alarm(gas_data["raw"])
GasStep ==
    /\ pc = "gas"
    /\ \E v \in GasValues, send_ok \in BOOLEAN, d \in 0..MaxStep :
         LET r == check_gas_alarm(v, send_ok) IN
         /\ gas_data' = v
         /\ gas_alarm_active' = r.active
         /\ gas_line_notified' = r.notified
         /\ manual_silence' = r.silence
         /\ gas_sent' = r.sent
         /\ gas_log' = r.log
         /\ gas_entered' = (~gas_alarm_active /\ r.active)
         /\ gas_alerts' = IF ~r.active THEN 0
                          ELSE IF ~gas_alarm_active THEN Bump(0, r.sent)
                          ELSE Bump(gas_alerts, r.sent)
         /\ Elapse(d)
    /\ pc' = "dht"
    /\ UNCHANGED <<buzzer_enabled, temp_alarm_active, temp_line_notified,
                   GAS_THRESHOLD, TEMP_THRESHOLD, client, last_good,
                   buzzer_duty, temp_data, dht_due, publish_due, msg,
                   temp_sent, temp_log, temp_entered, temp_payload,
                   temp_alerts,
                   exit_cause>>
    /\ UNCHANGED <<http, replay, gateway>>

\* now - last_dht_read < 2: the climate step is skipped
DhtSkip ==
    /\ pc = "dht"
    /\ ~dht_due
    /\ pc' = "update_buzzer"
    /\ UNCHANGED <<flags, client, last_good, buzzer_duty, gas_data, temp_data,
                   clock, dht_due, publish_due, observed, temp_payload,
                   gas_alerts, temp_alerts, exit_cause>>
    /\ UNCHANGED <<http, replay, gateway>>

\* a climate step that evaluates whatever read_dht_sensor returned
DhtStep_evaluates_invalid ==
    /\ pc = "dht"
    /\ dht_due
    /\ \E ok \in BOOLEAN, t \in TempValues, send_ok \in BOOLEAN :
         LET rd == read_dht_sensor(ok, t, HumidityAt(t))
             td == rd.data
             r == check_temp_alarm(td.temperature, send_ok) IN
         /\ temp_data' = td
         /\ current_temp' = rd.current_temp
         /\ current_humidity' = rd.current_humidity
         /\ temp_alarm_active' = r.active
         /\ temp_line_notified' = r.notified
         /\ manual_silence' = r.silence
         /\ temp_sent' = r.sent
         /\ temp_log' = r.log
         /\ temp_entered' = (~temp_alarm_active /\ r.active)
         /\ temp_alerts' = IF ~r.active THEN 0
                           ELSE IF ~temp_alarm_active THEN Bump(0, r.sent)
                           ELSE Bump(temp_alerts, r.sent)
         /\ last_dht_read_age' = now_age
         /\ dht_read_age' = 0
         /\ UNCHANGED <<now_age, last_publish_age>>
    /\ pc' = "update_buzzer"
    /\ UNCHANGED <<buzzer_enabled, gas_alarm_active, gas_line_notified,
                   GAS_THRESHOLD, TEMP_THRESHOLD, client, buzzer_duty,
                   gas_data, dht_due, publish_due, msg, gas_sent, gas_log,
                   gas_entered,
                   temp_payload, gas_alerts, exit_cause>>
    /\ UNCHANGED <<http, replay, gateway>>

\* temp_data = read_dht_sensor(); last_dht_read = now;   (the time this step
\* takes is counted with the sleep that ends the iteration)
\* if temp_data["valid"]: check_temp_alarm(temp_data["temperature"])
DhtStep ==
    /\ pc = "dht"
    /\ dht_due
    /\ \E ok \in BOOLEAN, t \in TempValues, send_ok \in BOOLEAN :
         LET rd == read_dht_sensor(ok, t, HumidityAt(t))
             td == rd.data
             r == check_temp_alarm(td.temperature, send_ok) IN
         /\ temp_data' = td
         /\ current_temp' = rd.current_temp
         /\ current_humidity' = rd.current_humidity
         /\ IF td.valid
            THEN /\ temp_alarm_active' = r.active
                 /\ temp_line_notified' = r.notified
                 /\ manual_silence' = r.silence
                 /\ temp_sent' = r.sent
                 /\ temp_log' = r.log
                 /\ temp_entered' = (~temp_alarm_active /\ r.active)
                 /\ temp_alerts' = IF ~r.active THEN 0
                                   ELSE IF ~temp_alarm_active THEN Bump(0, r.sent)
                                   ELSE Bump(temp_alerts, r.sent)
            ELSE UNCHANGED <<temp_alarm_active, temp_line_notified,
                             manual_silence, temp_sent, temp_log,
                             temp_entered,
                             temp_alerts>>
         /\ last_dht_read_age' = now_age
         /\ dht_read_age' = 0
         /\ UNCHANGED <<now_age, last_publish_age>>
    /\ pc' = "update_buzzer"
    /\ UNCHANGED <<buzzer_enabled, gas_alarm_active, gas_line_notified,
                   GAS_THRESHOLD, TEMP_THRESHOLD, client, buzzer_duty,
                   gas_data, dht_due, publish_due, msg, gas_sent, gas_log,
                   gas_entered,
                   temp_payload, gas_alerts, exit_cause>>
    /\ UNCHANGED <<http, replay, gateway>>

\* update_buzzer()
UpdateBuzzer ==
    /\ pc = "update_buzzer"
    /\ buzzer_duty' = update_buzzer
    /\ pc' = "publish"
    /\ UNCHANGED <<flags, client, last_good, gas_data, temp_data, clock,
                   dht_due, publish_due, observed, temp_payload, gas_alerts,
                   temp_alerts, exit_cause>>
    /\ UNCHANGED <<http, replay, gateway>>

\* now - last_publish >= 2: publish both readings; last_publish = now;
\* then time.sleep_ms(100)
PublishStep ==
    /\ pc = "publish"
    /\ publish_due
    /\ \E d \in 0..MaxStep :
         /\ now_age' = Sat(now_age + d)
         /\ last_publish_age' = Sat(now_age + d)
         /\ last_dht_read_age' = Sat(last_dht_read_age + d)
         /\ dht_read_age' = Sat(dht_read_age + d)
    /\ temp_payload' = publish_temp_data(climate_reading)
    /\ FreshIteration
    /\ pc' = "check_msg"
    /\ UNCHANGED <<flags, client, last_good, buzzer_duty, gas_alerts,
                   temp_alerts, exit_cause>>
    /\ UNCHANGED <<http, replay, gateway>>

\* now - last_publish < 2: only time.sleep_ms(100)
PublishSkip ==
    /\ pc = "publish"
    /\ ~publish_due
    /\ \E d \in 0..MaxStep : Elapse(d)
    /\ temp_payload' = NoPayload
    /\ FreshIteration
    /\ pc' = "check_msg"
    /\ UNCHANGED <<flags, client, last_good, buzzer_duty, gas_alerts,
                   temp_alerts, exit_cause>>
    /\ UNCHANGED <<http, replay, gateway>>

\* except Exception: time.sleep(5)
Backoff ==
    /\ pc = "backoff"
    /\ Elapse(BACKOFF_SECONDS)
    /\ pc' = "reconnect"
    /\ UNCHANGED <<flags, client, last_good, buzzer_duty, gas_data, temp_data,
                   dht_due, publish_due, observed, temp_payload, gas_alerts,
                   temp_alerts, exit_cause>>
    /\ UNCHANGED <<http, replay, gateway>>

Reconnect_or_stop ==
    /\ pc = "reconnect"
    /\ \E ok \in BOOLEAN :
         /\ client' = connect_mqtt(ok).client
         /\ pc' = IF connect_mqtt(ok).result THEN "check_msg" ELSE "stopped"
         /\ exit_cause' = IF connect_mqtt(ok).result THEN exit_cause ELSE "mqtt"
    /\ UNCHANGED <<flags, last_good, buzzer_duty, gas_data, temp_data, clock,
                   dht_due, publish_due, observed, temp_payload, gas_alerts,
                   temp_alerts>>
    /\ UNCHANGED <<http, replay, gateway>>

\* try: connect_mqtt() except: pass -- the result is not looked at
Reconnect ==
    /\ pc = "reconnect"
    /\ \E ok \in BOOLEAN : client' = connect_mqtt(ok).client
    /\ pc' = "check_msg"
    /\ UNCHANGED <<flags, last_good, buzzer_duty, gas_data, temp_data, clock,
                   dht_due, publish_due, observed, temp_payload, gas_alerts,
                   temp_alerts, exit_cause>>
    /\ UNCHANGED <<http, replay, gateway>>

\* main() is left: its locals (gas_data, temp_data, now, last_dht_read,
\* last_publish) are gone
LeaveMain ==
    /\ FreshIteration
    /\ temp_payload' = NoPayload
    /\ now_age' = AgeCap
    /\ last_dht_read_age' = AgeCap
    /\ last_publish_age' = AgeCap
    /\ dht_read_age' = AgeCap

\* KeyboardInterrupt in the try body: break; buzzer_off(); client.disconnect()
InterruptInTry ==
    /\ pc \in TryPcs
    /\ buzzer_duty' = DUTY_OFF
    /\ client' = IF client # "none" THEN "disconnected" ELSE client
    /\ pc' = "stopped"
    /\ exit_cause' = "interrupt_loop"
    /\ LeaveMain
    /\ UNCHANGED <<flags, last_good, gas_alerts, temp_alerts>>
    /\ UNCHANGED <<http, replay, gateway>>

\* KeyboardInterrupt during time.sleep(5) of the except Exception handler:
\* no enclosing handler, it leaves main()
InterruptInBackoff ==
    /\ pc = "backoff"
    /\ pc' = "stopped"
    /\ exit_cause' = "interrupt_handler"
    /\ LeaveMain
    /\ UNCHANGED <<flags, client, last_good, buzzer_duty, gas_alerts,
                   temp_alerts>>
    /\ UNCHANGED <<http, replay, gateway>>

\* KeyboardInterrupt inside connect_mqtt() of the handler: the bare except
\* swallows it, before or after the new client was stored
InterruptInReconnect ==
    /\ pc = "reconnect"
    /\ \E stored \in BOOLEAN : client' = IF stored THEN "failed" ELSE client
    /\ pc' = "check_msg"
    /\ UNCHANGED <<flags, last_good, buzzer_duty, gas_data, temp_data, clock,
                   dht_due, publish_due, observed, temp_payload, gas_alerts,
                   temp_alerts, exit_cause>>
    /\ UNCHANGED <<http, replay, gateway>>

\* KeyboardInterrupt before the loop: nothing catches it
InterruptAtStartup ==
    /\ pc \in StartupPcs
    /\ \E stored \in BOOLEAN :
         client' = IF stored /\ pc = "connect_mqtt" THEN "failed" ELSE client
    /\ pc' = "stopped"
    /\ exit_cause' = "interrupt_startup"
    /\ UNCHANGED <<flags, last_good, buzzer_duty, gas_data, temp_data, clock,
                   dht_due, publish_due, observed, temp_payload, gas_alerts,
                   temp_alerts>>
    /\ UNCHANGED <<http, replay, gateway>>

Next ==
    \/ ConnectWifi
    \/ ConnectMqtt
    \/ TestLine
    \/ Warmup
    \/ PollIdle
    \/ PollMessage
    \/ PollError
    \/ GasStep
    \/ DhtSkip
    \/ DhtStep
    \/ UpdateBuzzer
    \/ PublishStep
    \/ PublishSkip
    \/ Backoff
    \/ Reconnect
    \/ InterruptInTry
    \/ InterruptInBackoff
    \/ InterruptInReconnect
    \/ InterruptAtStartup

Spec == Init /\ [][Next]_vars

\* ------------------------------------------------------------ HTTP client
\* Bytes on the wire are tokens: "SP" a space, "CR" and "LF" the two line
\* break characters, "0".."9" digits, any other token a run of characters
\* without space or line break.
DigitChars == <<"0", "1", "2", "3", "4", "5", "6", "7", "8", "9">>
IsDigit(c) == \E i \in 1..10 : DigitChars[i] = c
DigitValue(c) == (CHOOSE i \in 1..10 : DigitChars[i] = c) - 1

\* status codes the gateway may answer with
StatusCodes == {199, 200, 201, 204, 299, 300, 404, 500}

\* the response with status code `code`, as the peer writes it
StatusResponse(code) ==
    <<"HTTP/1.1", "SP",
      DigitChars[(code \div 100) + 1],
      DigitChars[((code \div 10) % 10) + 1],
      DigitChars[(code % 10) + 1],
      "SP", "OK", "CR", "LF", "CR", "LF", "{}">>

\* responses whose status line carries no number where the code belongs
MalformedResponses ==
    {<<"HTTP/1.1", "SP", "2", "x", "0", "SP", "OK", "CR", "LF", "CR", "LF">>,
     <<"HTTP/1.1", "SP", "SP", "OK", "CR", "LF", "CR", "LF">>,
     <<"HTTP/1.1", "CR", "LF", "CR", "LF">>}

Responses == {StatusResponse(c) : c \in StatusCodes} \cup MalformedResponses

\* what the peer delivers before it closes or stalls: a response or a part
Wires == UNION {{SubSeq(r, 1, n) : n \in 0..Len(r)} : r \in Responses}

UrlKinds == {"https", "http", "no_scheme", "bad_port"}
Transports == {"ok", "dns", "connect", "tls", "write"}
Callers == {"send", "broadcast"}

Least(S) == CHOOSE i \in S : \A j \in S : i <= j

\* response_str.split("\r\n")[0]
status_line(resp) ==
    LET ends == {i \in 1..(Len(resp) - 1) : resp[i] = "CR" /\ resp[i + 1] = "LF"} IN
    IF ends = {} THEN resp ELSE SubSeq(resp, 1, Least(ends) - 1)

\* status_line.split(" ")[1]; found = FALSE stands for IndexError
second_field(line) ==
    LET sp == {i \in 1..Len(line) : line[i] = "SP"} IN
    IF sp = {} THEN [found |-> FALSE, text |-> <<>>]
    ELSE LET a == Least(sp)
             later == {i \in sp : i > a}
             b == IF later = {} THEN Len(line) + 1 ELSE Least(later)
         IN [found |-> TRUE, text |-> SubSeq(line, a + 1, b - 1)]

\* int(text) of a piece of the status line; ok = FALSE stands for ValueError
int_of(text) ==
    IF text # <<>> /\ \A i \in 1..Len(text) : IsDigit(text[i])
    THEN [ok |-> TRUE, n |-> DigitsToInt([i \in 1..Len(text) |-> DigitValue(text[i])])]
    ELSE [ok |-> FALSE, n |-> 0]

\* the status_code http_post_with_ssl returns for the bytes it accumulated
parse_status(resp) ==
    LET f == second_field(status_line(resp)) IN
    IF f.found /\ int_of(f.text).ok THEN int_of(f.text).n ELSE None

\* the URL has a scheme the client knows and a numeric port, if any
url_parses == url \in {"https", "http"}

\* getaddrinfo, connect, wrap_socket (https only) or write raises
transport_fails ==
    \/ transport \in {"dns", "connect", "write"}
    \/ transport = "tls" /\ url = "https"

\* send_line_notification, given what http_post_with_ssl returned
send_line_notification(status_code) == status_code = 200

\* send_line_broadcast, given what http_post_with_ssl returned
send_line_broadcast(status_code) == status_code = 200

Returned(status_code) ==
    IF caller = "send"
    THEN (IF send_line_notification(status_code) THEN "True" ELSE "False")
    ELSE (IF send_line_broadcast(status_code) THEN "True" ELSE "False")

\* response_str.split("\r\n\r\n", 1)[1], or "" without a blank line
body_of(resp) ==
    LET blank == {i \in 1..(Len(resp) - 3) :
                    /\ resp[i] = "CR" /\ resp[i + 1] = "LF"
                    /\ resp[i + 2] = "CR" /\ resp[i + 3] = "LF"} IN
    IF blank = {} THEN <<>> ELSE SubSeq(resp, Least(blank) + 4, Len(resp))

\* what http_post_with_ssl returns for the bytes it accumulated: the pair
\* (status_code, body), or (None, str(e)) from its except Exception
http_result(resp) ==
    IF parse_status(resp) = None
    THEN [status_code |-> None, body |-> <<"error">>]
    ELSE [status_code |-> parse_status(resp), body |-> body_of(resp)]

\* messages: ASCII only, with a two-byte and with a three-byte character
Payloads == {<<1, 1>>, <<1, 2>>, <<3>>}

\* json.dumps(payload) of MicroPython: ASCII framing around the text, whose
\* characters above 0x7f are written as they are
json_dumps(text) == <<1>> \o text \o <<1>>

RECURSIVE Sum(_)
Sum(widths) == IF widths = <<>> THEN 0 ELSE Head(widths) + Sum(Tail(widths))

\* the request as built: the number in "Content-Length: {len(body)}" and the
\* bytes of the body in request.encode()
build_request(text) ==
    [content_length |-> Len(json_dumps(text)),
     body_bytes |-> Sum(json_dumps(text))]

WireEnds == {"eof", "timeout", "interrupt", "more"}

\* one call of send_line_notification or send_line_broadcast, with the
\* behaviour of the network drawn at the start
HttpInit ==
    /\ LoopInit
    /\ ReplayIdle
    /\ GatewayIdle
    /\ http_pc = "call"
    /\ caller \in Callers
    /\ url \in UrlKinds
    /\ transport \in Transports
    /\ peer_sends \in Wires
    /\ wire = peer_sends
    /\ wire_end \in WireEnds
    /\ payload \in Payloads
    /\ response = <<>>
    /\ reads = 0
    /\ result = NoResult
    /\ request = NoRequest
    /\ returned = "none"

\* the URL is rejected (ValueError) before the try of http_post_with_ssl:
\* the except Exception of the caller returns False
HttpBadUrl ==
    /\ http_pc = "call"
    /\ ~url_parses
    /\ returned' = "False"
    /\ http_pc' = "done"
    /\ UNCHANGED <<http_given, wire, response, reads, result, request>>
    /\ UNCHANGED <<loop_vars, replay, gateway>>

\* the network fails before the read loop: http_post_with_ssl returns
\* (None, str(e))
HttpTransportFails ==
    /\ http_pc = "call"
    /\ url_parses
    /\ transport_fails
    /\ result' = [status_code |-> None, body |-> <<"error">>]
    /\ returned' = Returned(None)
    /\ http_pc' = "done"
    /\ UNCHANGED <<http_given, wire, response, reads, request>>
    /\ UNCHANGED <<loop_vars, replay, gateway>>

\* connected, and the request is written
HttpRequestWritten ==
    /\ http_pc = "call"
    /\ url_parses
    /\ ~transport_fails
    /\ request' = build_request(payload)
    /\ http_pc' = "read"
    /\ UNCHANGED <<http_given, wire, response, reads, result, returned>>
    /\ UNCHANGED <<loop_vars, replay, gateway>>

HttpReadChunk_keeps_last_chunk ==
    /\ http_pc = "read"
    /\ wire # <<>>
    /\ \E n \in 1..Len(wire) :
         /\ response' = SubSeq(wire, 1, n)
         /\ wire' = SubSeq(wire, n + 1, Len(wire))
    /\ reads' = (reads + 1) % ReadsModulus
    /\ UNCHANGED <<http_pc, http_given, result, request, returned>>
    /\ UNCHANGED <<loop_vars, replay, gateway>>

\* chunk = sock.read(1024) returns some bytes: response += chunk
HttpReadChunk ==
    /\ http_pc = "read"
    /\ wire # <<>>
    /\ \E n \in 1..Len(wire) :
         /\ response' = response \o SubSeq(wire, 1, n)
         /\ wire' = SubSeq(wire, n + 1, Len(wire))
    /\ reads' = (reads + 1) % ReadsModulus
    /\ UNCHANGED <<http_pc, http_given, result, request, returned>>
    /\ UNCHANGED <<loop_vars, replay, gateway>>

\* sock.read returns nothing: break; the response is parsed
HttpReadEof ==
    /\ http_pc = "read"
    /\ wire = <<>>
    /\ wire_end = "eof"
    /\ result' = http_result(response)
    /\ returned' = Returned(http_result(response).status_code)
    /\ http_pc' = "done"
    /\ UNCHANGED <<http_given, wire, response, reads, request>>
    /\ UNCHANGED <<loop_vars, replay, gateway>>

\* sock.read raises: the bare except breaks out of the loop, and the
\* response is parsed all the same
HttpReadTimeout ==
    /\ http_pc = "read"
    /\ wire = <<>>
    /\ wire_end = "timeout"
    /\ result' = http_result(response)
    /\ returned' = Returned(http_result(response).status_code)
    /\ http_pc' = "done"
    /\ UNCHANGED <<http_given, wire, response, reads, request>>
    /\ UNCHANGED <<loop_vars, replay, gateway>>

\* sock.read is interrupted (KeyboardInterrupt): the bare except breaks out
\* of the loop like any exception, the response is parsed and the call
\* returns to the alarm machine
HttpReadInterrupt ==
    /\ http_pc = "read"
    /\ wire_end = "interrupt"
    /\ result' = http_result(response)
    /\ returned' = Returned(http_result(response).status_code)
    /\ http_pc' = "done"
    /\ UNCHANGED <<http_given, wire, response, reads, request>>
    /\ UNCHANGED <<loop_vars, replay, gateway>>

\* the peer does not close and sends one more byte within the timeout:
\* response += chunk, and the loop goes round again (of the bytes that follow
\* the response proper, response keeps the first MaxTrickle)
HttpReadMore ==
    /\ http_pc = "read"
    /\ wire = <<>>
    /\ wire_end = "more"
    /\ response' = IF Len(response) < Len(peer_sends) + MaxTrickle
                   THEN Append(response, "x")
                   ELSE response
    /\ reads' = (reads + 1) % ReadsModulus
    /\ UNCHANGED <<http_pc, http_given, wire, result, request, returned>>
    /\ UNCHANGED <<loop_vars, replay, gateway>>

HttpNext ==
    \/ HttpBadUrl
    \/ HttpTransportFails
    \/ HttpRequestWritten
    \/ HttpReadChunk
    \/ HttpReadEof
    \/ HttpReadTimeout
    \/ HttpReadInterrupt
    \/ HttpReadMore

HttpSpec == HttpInit /\ [][HttpNext]_vars

\* one broadcast of an ASCII message whose peer answers 200 or nothing
HttpLiveInit ==
    /\ LoopInit
    /\ ReplayIdle
    /\ GatewayIdle
    /\ http_pc = "call"
    /\ caller = "broadcast"
    /\ url \in {"https", "no_scheme"}
    /\ transport \in {"ok", "connect"}
    /\ peer_sends \in {StatusResponse(200), <<>>}
    /\ wire = peer_sends
    /\ wire_end \in WireEnds
    /\ payload = <<1, 1>>
    /\ response = <<>>
    /\ reads = 0
    /\ result = NoResult
    /\ request = NoRequest
    /\ returned = "none"

\* the call is not suspended for ever while one of its steps can be taken
HttpLiveSpec == HttpLiveInit /\ [][HttpNext]_vars /\ WF_vars(HttpNext)

\* ------------------------------------------ check_gas_alarm on a sequence
\* the sequence of raw gas values of the reference scenario
ReferenceValues == <<1000, 1500, 1600, 1450, 1380, 1300>>

\* sequences of the same length over the same values
RawSequences ==
    [1..Len(ReferenceValues) ->
        {ReferenceValues[i] : i \in 1..Len(ReferenceValues)}]

AlarmState(active) == IF active THEN "Active" ELSE "Normal"

\* the globals as main() finds them, and a sequence of values to evaluate
ReplayInit ==
    /\ LoopInit
    /\ HttpIdle
    /\ GatewayIdle
    /\ raw_values \in RawSequences
    /\ tick = 0
    /\ alarm_states = <<>>

\* check_gas_alarm(value) for the next value of the sequence
ReplayTick ==
    /\ tick < Len(raw_values)
    /\ \E send_ok \in BOOLEAN :
         LET r == check_gas_alarm(raw_values[tick + 1], send_ok) IN
         /\ gas_alarm_active' = r.active
         /\ gas_line_notified' = r.notified
         /\ manual_silence' = r.silence
         /\ alarm_states' = Append(alarm_states, AlarmState(r.active))
    /\ tick' = tick + 1
    /\ UNCHANGED <<pc, buzzer_enabled, temp_alarm_active, temp_line_notified,
                   GAS_THRESHOLD, TEMP_THRESHOLD, client, last_good,
                   buzzer_duty, gas_data, temp_data, clock, dht_due,
                   publish_due, observed, temp_payload, gas_alerts,
                   temp_alerts, exit_cause>>
    /\ UNCHANGED <<http, raw_values, gateway>>

ReplayNext == ReplayTick

ReplaySpec == ReplayInit /\ [][ReplayNext]_vars

\* ---------------------------------------------------- notification gateway
\* the webhook of the gateway serving one request

EventTypes == {"message_text", "message_image", "follow", "unfollow"}

\* body_json.get("events", []): the types of the events listed
Bodies == UNION {[1..n -> EventTypes] : n \in 0..MaxEvents}

\* the configured secret ("" is none) and a key that is not the secret
Secrets == {"", "secret"}
Keys == {"secret", "guess"}

\* base64.b64encode(hmac.new(key, body, hashlib.sha256).digest()): a tag
\* that names its key and its body, so that tags agree only when both do
hmac_sha256_b64(key, content) == [t |-> "mac", key |-> key, content |-> content]

Signatures ==
    {NoHeader, [t |-> "empty"]}
      \cup {hmac_sha256_b64(k, b) : k \in Keys, b \in Bodies}

\* the truth value Python gives the header: None and "" are false
Truthy(signature) == signature.t = "mac"

\* verify_signature(body, signature)
verify_signature(content, signature) ==
    IF LINE_CHANNEL_SECRET = ""
    THEN TRUE
    ELSE signature = hmac_sha256_b64(LINE_CHANNEL_SECRET, content)

WebhookInit ==
    /\ LoopInit
    /\ HttpIdle
    /\ ReplayIdle
    /\ webhook_pc = "received"
    /\ LINE_CHANNEL_SECRET \in Secrets
    /\ body \in Bodies
    /\ x_line_signature \in Signatures
    /\ webhook_status = None
    /\ handled = 0
    /\ replies = 0

\* if x_line_signature and not verify_signature(body, x_line_signature):
\*     raise HTTPException(status_code=403)
\* otherwise the body is parsed and the events are gone through
WebhookVerify ==
    /\ webhook_pc = "received"
    /\ IF Truthy(x_line_signature) /\ ~verify_signature(body, x_line_signature)
       THEN /\ webhook_status' = 403
            /\ webhook_pc' = "done"
       ELSE /\ webhook_status' = webhook_status
            /\ webhook_pc' = "events"
    /\ UNCHANGED <<LINE_CHANNEL_SECRET, body, x_line_signature, handled, replies>>
    /\ UNCHANGED <<loop_vars, http, replay>>

\* one round of "for event in events": a text message is answered through
\* auto_reply, the other events are printed
WebhookEvent ==
    /\ webhook_pc = "events"
    /\ handled < Len(body)
    /\ handled' = handled + 1
    /\ replies' = IF body[handled + 1] = "message_text" THEN replies + 1 ELSE replies
    /\ UNCHANGED <<webhook_pc, LINE_CHANNEL_SECRET, body, x_line_signature,
                   webhook_status>>
    /\ UNCHANGED <<loop_vars, http, replay>>

\* return {"status": "ok"}
WebhookReturn ==
    /\ webhook_pc = "events"
    /\ handled = Len(body)
    /\ webhook_status' = 200
    /\ webhook_pc' = "done"
    /\ UNCHANGED <<LINE_CHANNEL_SECRET, body, x_line_signature, handled, replies>>
    /\ UNCHANGED <<loop_vars, http, replay>>

WebhookNext ==
    \/ WebhookVerify
    \/ WebhookEvent
    \/ WebhookReturn

WebhookSpec == WebhookInit /\ [][WebhookNext]_vars

TypeOK ==
    /\ pc \in StartupPcs \cup LoopPcs \cup {"stopped"}
    /\ buzzer_enabled \in BOOLEAN
    /\ gas_alarm_active \in BOOLEAN
    /\ temp_alarm_active \in BOOLEAN
    /\ manual_silence \in BOOLEAN
    /\ client \in {"none", "connected", "lost", "failed", "disconnected"}
    /\ gas_line_notified \in BOOLEAN
    /\ temp_line_notified \in BOOLEAN
    /\ buzzer_duty \in {DUTY_OFF, DUTY_ON}
    /\ gas_sent \in SendResults
    /\ temp_sent \in SendResults
    /\ gas_log \in {"none", "gas", "gas_clear"}
    /\ temp_log \in {"none", "temp", "temp_clear"}
    /\ gas_alerts \in 0..MaxAlertCount
    /\ temp_alerts \in 0..MaxAlertCount
    /\ now_age \in 0..AgeCap
    /\ last_dht_read_age \in 0..AgeCap
    /\ last_publish_age \in 0..AgeCap
    /\ dht_read_age \in 0..AgeCap
    /\ temp_payload.valid \in BOOLEAN
    /\ http_pc \in {"idle", "call", "read", "done"}
    /\ caller \in Callers
    /\ url \in UrlKinds
    /\ transport \in Transports
    /\ wire_end \in WireEnds
    /\ returned \in {"none", "True", "False"}
    /\ webhook_pc \in {"idle", "received", "events", "done"}
    /\ LINE_CHANNEL_SECRET \in Secrets
    /\ body \in Bodies
    /\ x_line_signature \in Signatures
    /\ webhook_status \in {None, 200, 403}
    /\ handled \in 0..MaxEvents
    /\ replies \in 0..MaxEvents

\* ------------------------------------------------------------------ claims
AlertSent(sent) == sent \in {"alert_ok", "alert_fail"}
BuzzerPolicy == (gas_alarm_active \/ temp_alarm_active) /\ buzzer_enabled /\ ~manual_silence
InterruptCauses == {"interrupt_loop", "interrupt_handler", "interrupt_startup"}

\* steps of the loop, recognised by the position of main()
GasEvaluated == pc = "gas" /\ pc' = "dht"
TempEvaluated == pc = "dht" /\ pc' = "update_buzzer" /\ temp_data'.read /\ temp_data'.valid
CommandApplied(c) == pc = "check_msg" /\ pc' = "gas" /\ msg'.json /\ msg'.command = c

\* C1: for gas and for temperature, an evaluation of value v against the
\* current threshold T and hysteresis H takes Normal to Active when v >= T,
\* Active to Normal when v < T - H, and leaves the state as it is when
\* Active with T - H <= v < T and when Normal with v < T.
C1_Hysteresis ==
    [][ /\ GasEvaluated =>
             LET v == gas_data' IN
             /\ (~gas_alarm_active /\ v >= GAS_THRESHOLD) => gas_alarm_active'
             /\ (gas_alarm_active /\ v < GAS_THRESHOLD - HYSTERESIS) => ~gas_alarm_active'
             /\ (gas_alarm_active /\ GAS_THRESHOLD - HYSTERESIS <= v /\ v < GAS_THRESHOLD)
                   => gas_alarm_active'
             /\ (~gas_alarm_active /\ v < GAS_THRESHOLD) => ~gas_alarm_active'
        /\ TempEvaluated =>
             LET v == temp_data'.temperature IN
             /\ (~temp_alarm_active /\ v >= TEMP_THRESHOLD) => temp_alarm_active'
             /\ (temp_alarm_active /\ v < TEMP_THRESHOLD - TEMP_HYSTERESIS) => ~temp_alarm_active'
             /\ (temp_alarm_active /\ TEMP_THRESHOLD - TEMP_HYSTERESIS <= v /\ v < TEMP_THRESHOLD)
                   => temp_alarm_active'
             /\ (~temp_alarm_active /\ v < TEMP_THRESHOLD) => ~temp_alarm_active'
      ]_vars

\* a gas value on the lower edge of the dead band was evaluated while Active
\* and the alarm stayed Active
C1_Witness ==
    /\ pc = "dht"
    /\ gas_alarm_active /\ ~gas_entered
    /\ gas_data = GAS_THRESHOLD - HYSTERESIS

\* C2: in one continuous Active episode of a quantity at most one "alarm
\* entered" broadcast leaves the device, however many ticks are evaluated
\* while it stays Active and whatever commands arrive in between.
C2_AtMostOneAlert == gas_alerts <= 1 /\ temp_alerts <= 1

\* a later tick of a gas episode that has its one alert, a command having
\* been applied in that iteration
C2_Witness ==
    /\ pc = "dht"
    /\ gas_alarm_active /\ ~gas_entered /\ gas_alerts = 1
    /\ gas_data >= GAS_THRESHOLD
    /\ msg.json

\* C3: a gas tick that finds the alarm Active and leaves it Active with the
\* notified flag still false (the alert of this episode failed) attempts the
\* alert broadcast again.
C3_RetryAfterFailedSend ==
    [][ (GasEvaluated /\ gas_alarm_active /\ gas_alarm_active' /\ ~gas_line_notified)
          => AlertSent(gas_sent') ]_vars

\* C4: every Active->Normal transition of a quantity leaves its notified flag
\* false, whether the "cleared" broadcast succeeds or fails, and the next
\* Normal->Active transition of that quantity broadcasts an alert again.
C4_NotifiedReset ==
    [][ /\ (gas_alarm_active /\ ~gas_alarm_active') => ~gas_line_notified'
        /\ (temp_alarm_active /\ ~temp_alarm_active') => ~temp_line_notified'
        /\ (~gas_alarm_active /\ gas_alarm_active') => AlertSent(gas_sent')
        /\ (~temp_alarm_active /\ temp_alarm_active') => AlertSent(temp_sent')
      ]_vars

\* the gas alarm has just cleared, the "cleared" broadcast failed and the
\* flag is reset
C4_Witness ==
    /\ pc = "dht"
    /\ ~gas_alarm_active /\ gas_sent = "clear_fail"
    /\ ~gas_line_notified

\* C5: from the buzzer update of an iteration to the end of that iteration
\* the buzzer is on exactly if (gas_alarm or temp_alarm) and buzzer_enabled
\* and not manual_silence.
C5_BuzzerPolicy ==
    pc = "publish" => (buzzer_duty = DUTY_ON <=> BuzzerPolicy)

\* only the temperature alarm is active and the update turned the buzzer on
C5_Witness ==
    /\ pc = "publish"
    /\ ~gas_alarm_active /\ temp_alarm_active
    /\ buzzer_enabled /\ ~manual_silence
    /\ buzzer_duty = DUTY_ON

\* C6: when main() has ended by an interrupt in the loop or in its error
\* handler, or by the startup Wi-Fi or broker failure, the buzzer is off and
\* no connected broker client is left without disconnect().
C6_ScopedRelease ==
    (pc = "stopped" /\ exit_cause \in {"interrupt_loop", "interrupt_handler", "wifi", "mqtt"})
        => (buzzer_duty = DUTY_OFF /\ client \notin {"connected", "lost"})

\* C7: an Exception raised in an iteration leads to the backoff, the backoff
\* to one reconnect attempt, and the reconnect attempt, failed or not, to the
\* next iteration; the loop is only ever left by an interrupt.
C7_FailureKeepsLooping ==
    [][ /\ (pc = "check_msg" /\ pc' \notin {"gas", "stopped"}) => pc' = "backoff"
        /\ (pc = "backoff" /\ pc' # "stopped") => pc' = "reconnect"
        /\ pc = "reconnect" => pc' = "check_msg"
        /\ (pc \in LoopPcs /\ pc' = "stopped") => exit_cause' \in InterruptCauses
      ]_vars

\* the reconnect attempt after a failure failed and the next iteration is
\* about to run
C7_Witness == pc = "check_msg" /\ client = "failed"

\* C8: an iteration whose command poll fails still samples gas and evaluates
\* the gas alarm: unless interrupted, the poll is followed by the gas step.
C8_SamplingSurvivesPollFailure ==
    [][ (pc = "check_msg" /\ pc' # "stopped") => pc' = "gas" ]_vars

\* C9: applying silence sets manual_silence, turns the buzzer off at once
\* and leaves both alarm states as they are; and the buzzer is off after the
\* buzzer update of that iteration unless a quantity entered Active in it.
C9_SilenceForcesOff ==
    [][ /\ CommandApplied("silence") =>
             /\ manual_silence'
             /\ buzzer_duty' = DUTY_OFF
             /\ gas_alarm_active' = gas_alarm_active
             /\ temp_alarm_active' = temp_alarm_active
        /\ (pc' = "publish" /\ msg'.json /\ msg'.command = "silence"
               /\ ~gas_entered' /\ ~temp_entered')
             => buzzer_duty' = DUTY_OFF
      ]_vars

\* silence was applied while the gas alarm was Active: after the buzzer
\* update the alarm is still Active and the buzzer is off
C9_Witness ==
    /\ pc = "publish"
    /\ msg.json /\ msg.command = "silence"
    /\ gas_alarm_active /\ ~gas_entered /\ ~temp_entered
    /\ buzzer_enabled /\ manual_silence
    /\ buzzer_duty = DUTY_OFF

\* C10: every Normal->Active transition of either quantity leaves
\* manual_silence false, and after the buzzer update of an iteration in
\* which a quantity entered Active the buzzer is on if buzzer_enabled.
C10_NewAlarmClearsSilence ==
    [][ /\ ((~gas_alarm_active /\ gas_alarm_active')
              \/ (~temp_alarm_active /\ temp_alarm_active')) => ~manual_silence'
        /\ (pc' = "publish" /\ (gas_entered' \/ temp_entered') /\ buzzer_enabled')
             => buzzer_duty' = DUTY_ON
      ]_vars

\* silence was applied and then a fresh gas episode began in the same
\* iteration: the buzzer sounds without any reset command
C10_Witness ==
    /\ pc = "publish"
    /\ msg.json /\ msg.command = "silence"
    /\ gas_entered /\ ~temp_alarm_active
    /\ ~manual_silence
    /\ buzzer_duty = DUTY_ON

\* ----------------------------------------------------- commands (C11-C15)

\* check_msg handed a payload to mqtt_callback in this step
Delivered == pc = "check_msg" /\ msg' # NoMessage
BuzzerUpdated == pc = "update_buzzer" /\ pc' = "publish"
\* the value of a numeric command value, in tenths
Numeric(v) == v.t \in {"num", "frac", "str", "fracstr"}
Tenths(v) ==
    IF v.t = "num" THEN 10 * v.n
    ELSE IF v.t = "frac" THEN 10 * v.n + v.f
    ELSE IF v.t = "str" THEN 10 * DigitsToInt(v.s)
    ELSE 10 * DigitsToInt(v.s) + v.f
Whole(v) == v.t \in {"num", "str"}

\* C11: the command applied in an iteration is the only one of that
\* iteration, it is applied before the gas sample is taken, and the gas
\* evaluation, the temperature evaluation and the buzzer computation of that
\* same iteration all see its effect.
C11_CommandVisibleSameIteration ==
    [][ /\ pc' = "gas" => pc = "check_msg"
        /\ (msg' # msg /\ msg' # NoMessage) => (pc = "check_msg" /\ msg = NoMessage)
        /\ (GasEvaluated /\ msg.json /\ msg.command = "set_gas_threshold"
               /\ Whole(msg.value))
             => /\ 10 * GAS_THRESHOLD = Tenths(msg.value)
                /\ ~gas_alarm_active =>
                     (gas_alarm_active' <=> 10 * gas_data' >= Tenths(msg.value))
        /\ (TempEvaluated /\ msg.json /\ msg.command = "set_temp_threshold"
               /\ Whole(msg.value))
             => /\ 10 * TEMP_THRESHOLD = Tenths(msg.value)
                /\ ~temp_alarm_active =>
                     (temp_alarm_active' <=>
                        10 * temp_data'.temperature >= Tenths(msg.value))
        /\ (BuzzerUpdated /\ msg.json /\ msg.command = "disable")
             => buzzer_duty' = DUTY_OFF
        /\ (BuzzerUpdated /\ msg.json /\ msg.command = "enable"
               /\ (gas_alarm_active \/ temp_alarm_active))
             => buzzer_duty' = DUTY_ON
      ]_vars

\* a threshold of 1600 arrived in this iteration and the sample of 1500 taken
\* after it did not start an alarm, as it would have under the default 1500
C11_Witness ==
    /\ pc = "dht"
    /\ msg.json /\ msg.command = "set_gas_threshold" /\ msg.value = NumValue(1600)
    /\ gas_data = 1500
    /\ ~gas_alarm_active

\* C12 (as stated): set_gas_threshold with any numeric value, a number or a
\* numeric string, sets the gas threshold to exactly that value.
C12_ThresholdSetToValue ==
    [][ (Delivered /\ msg'.json /\ msg'.command = "set_gas_threshold"
           /\ Numeric(msg'.value))
          => 10 * GAS_THRESHOLD' = Tenths(msg'.value)
      ]_vars

\* C12 (amended): set_gas_threshold with a whole number or a string of decimal
\* digits sets the gas threshold to that value; a number with a fractional
\* part is truncated toward zero and a string with a fractional part is
\* ignored. Applying the command changes no alarm state, and the gas
\* evaluation that follows compares against the threshold then in force.
C12_ThresholdSetToInteger ==
    [][ /\ (Delivered /\ msg'.json /\ msg'.command = "set_gas_threshold")
             => /\ Whole(msg'.value) => 10 * GAS_THRESHOLD' = Tenths(msg'.value)
                /\ msg'.value.t = "frac" => GAS_THRESHOLD' = msg'.value.n
                /\ msg'.value.t = "fracstr" => GAS_THRESHOLD' = GAS_THRESHOLD
                /\ gas_alarm_active' = gas_alarm_active
                /\ temp_alarm_active' = temp_alarm_active
                /\ pc' = "gas"
        /\ GasEvaluated
             => /\ GAS_THRESHOLD' = GAS_THRESHOLD
                /\ ~gas_alarm_active =>
                     (gas_alarm_active' <=> gas_data' >= GAS_THRESHOLD)
      ]_vars

\* the value 1600.5 arrived while the gas alarm was Active: the threshold is
\* 1600 and the alarm is still Active before the sample is taken
C12_Witness ==
    /\ pc = "gas"
    /\ msg.json /\ msg.command = "set_gas_threshold"
    /\ msg.value = FracValue(1600, 5)
    /\ GAS_THRESHOLD = 1600
    /\ gas_alarm_active

\* C13: a threshold command whose value is missing or malformed is ignored:
\* thresholds, override flags, alarm states and notified flags keep their
\* values, the buzzer is not touched, and no error leaves the handler (the
\* iteration goes on to the gas step).
C13_BadThresholdValueIgnored ==
    [][ (Delivered /\ msg'.json
           /\ msg'.command \in {"set_gas_threshold", "set_temp_threshold"}
           /\ msg'.value.t \in {"none", "bad"})
          => /\ UNCHANGED flags
             /\ buzzer_duty' = buzzer_duty
             /\ pc' = "gas"
      ]_vars

\* a malformed gas threshold arrived after the threshold had been raised to
\* 1600: the threshold is still 1600 and the loop is at the gas step
C13_Witness ==
    /\ pc = "gas"
    /\ msg.json /\ msg.command = "set_gas_threshold" /\ msg.value = BadValue
    /\ GAS_THRESHOLD = 1600
    /\ manual_silence

\* C14: a payload that is no JSON object, or whose command is unrecognized or
\* absent, changes no state and raises nothing.
C14_UnknownCommandIgnored ==
    [][ (Delivered /\ (~msg'.json \/ msg'.command \in {"unknown", "absent"}))
          => /\ UNCHANGED flags
             /\ buzzer_duty' = buzzer_duty
             /\ client' = client
             /\ pc' = "gas"
      ]_vars

\* a payload without a command field arrived while the gas alarm was Active
\* and silenced: the override is still in place
C14_Witness ==
    /\ pc = "gas"
    /\ msg.json /\ msg.command = "absent"
    /\ gas_alarm_active /\ manual_silence
    /\ buzzer_duty = DUTY_OFF

\* C15: enable sets buzzer_enabled, disable clears it and forces the buzzer
\* off; neither changes manual_silence, the thresholds or the alarm states.
C15_EnableDisableFrame ==
    [][ /\ (Delivered /\ msg'.json /\ msg'.command = "enable")
             => /\ buzzer_enabled'
                /\ UNCHANGED <<manual_silence, GAS_THRESHOLD, TEMP_THRESHOLD,
                               gas_alarm_active, temp_alarm_active>>
        /\ (Delivered /\ msg'.json /\ msg'.command = "disable")
             => /\ ~buzzer_enabled'
                /\ buzzer_duty' = DUTY_OFF
                /\ UNCHANGED <<manual_silence, GAS_THRESHOLD, TEMP_THRESHOLD,
                               gas_alarm_active, temp_alarm_active>>
      ]_vars

\* ------------------------------------------------------ climate (C18-C20)

\* read_dht_sensor was called in this step
ClimateRead == pc = "dht" /\ pc' = "update_buzzer" /\ temp_data'.read
\* both readings are published in this step
Published == pc = "publish" /\ publish_due /\ pc' = "check_msg"

C19_ReadsTwoSecondsApart ==
    [][ ClimateRead => dht_read_age >= DHT_INTERVAL ]_vars

\* C20: the climate telemetry published in an iteration that sampled the
\* sensor carries valid = true exactly if that sample succeeded.
C20_PublishedValidity ==
    [][ (Published /\ temp_data.read)
          => (temp_payload'.valid <=> temp_data.valid) ]_vars

\* ------------------------------------------------- notifications (C16-C17)

\* C16: a call that received the complete response with status code c has
\* returned true exactly if c is in 200..299.
C16_Any2xxSucceeds ==
    \A c \in StatusCodes :
        (http_pc = "done" /\ response = StatusResponse(c))
          => (returned = "True" <=> c \in 200..299)

\* C17: every call returns true or false, and it returns false if the URL
\* was malformed, if resolving, connecting, the TLS handshake or the write
\* failed, if the read timed out, if the response was empty or if its status
\* line cannot be parsed.
C17_FailuresYieldFalse ==
    http_pc = "done" =>
        /\ returned \in {"True", "False"}
        /\ ( \/ ~url_parses
             \/ transport_fails
             \/ wire_end = "timeout"
             \/ response = <<>>
             \/ response \in MalformedResponses )
           => returned = "False"

\* ------------------------------------------- reference scenario (C21)

\* C21 (as stated): with threshold 1500 and hysteresis 100, starting Normal,
\* the values 1000, 1500, 1600, 1450, 1380, 1300 evaluated in order leave the
\* gas alarm Normal, Active, Active, Active, Active, Normal.
C21_ReferenceSequence ==
    (raw_values = ReferenceValues /\ tick = Len(ReferenceValues))
      => alarm_states =
           <<"Normal", "Active", "Active", "Active", "Active", "Normal">>

\* C21 (amended): the same values leave the gas alarm Normal, Active, Active,
\* Active, Normal, Normal: 1380 is below 1500 - 100 and clears the alarm.
C21_ReferenceSequenceClearsAt1380 ==
    (raw_values = ReferenceValues /\ tick = Len(ReferenceValues))
      => alarm_states =
           <<"Normal", "Active", "Active", "Active", "Normal", "Normal">>

\* the six values of the scenario have been evaluated with the default
\* threshold; the alarm was entered at 1500 and is Normal at the end
C21_Witness ==
    /\ raw_values = ReferenceValues
    /\ tick = 6
    /\ alarm_states[2] = "Active"
    /\ ~gas_alarm_active
    /\ GAS_THRESHOLD = 1500

\* ------------------------------------------------- HTTP framing (C22-C23)

\* C22: when the peer closes after its last byte, the status code and body
\* returned are those of reading everything the peer sent in one chunk,
\* however many read calls it took; for the reference response they are 200
\* and the body after the first blank line.
C22_ChunkingDoesNotMatter ==
    (http_pc = "done" /\ url_parses /\ ~transport_fails /\ wire_end = "eof")
      => /\ result = http_result(peer_sends)
         /\ peer_sends = StatusResponse(200)
              => result = [status_code |-> 200, body |-> <<"{}">>]

\* the reference response arrived in three or more pieces
C22_Witness ==
    /\ http_pc = "done"
    /\ wire_end = "eof"
    /\ peer_sends = StatusResponse(200)
    /\ reads >= 3
    /\ result.status_code = 200
    /\ result.body = <<"{}">>

\* C23: the Content-Length of a request written to the socket is the number
\* of bytes of its body.
C23_ContentLengthCountsBytes ==
    (http_pc \in {"read", "done"} /\ request # NoRequest)
      => request.content_length = request.body_bytes


\* ------------------------------------------------- warm-up and flags (C24-C30)

\* the quiet state: both alarms Normal, nothing logged, nothing sent
NothingEvaluated ==
    /\ ~gas_alarm_active /\ ~temp_alarm_active
    /\ ~gas_line_notified /\ ~temp_line_notified
    /\ gas_log = "none" /\ temp_log = "none"
    /\ gas_sent = "none" /\ temp_sent = "none"
    /\ gas_alerts = 0 /\ temp_alerts = 0
    /\ gas_data = 0 /\ ~temp_data.read

StartupExits == {"wifi", "mqtt", "interrupt_startup"}

\* C24: until the warm-up countdown has completed (and when main() returns
\* before it has), both alarm states are Normal, no alarm-log event has been
\* handed to the broker client, no alert has been sent and no sample has
\* been evaluated; the step that ends the warm-up itself evaluates nothing.
C24_NoEvaluationBeforeWarmup ==
    /\ []((pc \in StartupPcs \/ exit_cause \in StartupExits) => NothingEvaluated)
    /\ [][(pc \in StartupPcs) => (NothingEvaluated)' ]_vars

\* the countdown is running on a connected device
C24_Witness ==
    /\ pc = "warmup"
    /\ client = "connected"
    /\ NothingEvaluated

\* C25: a notified flag goes from false to true only in an evaluation whose
\* alert broadcast returned True; after an evaluation whose alert broadcast
\* returned False the flag is false.
C25_NotifiedOnlyOnSuccess ==
    [][ /\ (~gas_line_notified /\ gas_line_notified')
             => (GasEvaluated /\ gas_sent' = "alert_ok")
        /\ (~temp_line_notified /\ temp_line_notified')
             => (TempEvaluated /\ temp_sent' = "alert_ok")
        /\ (GasEvaluated /\ gas_sent' = "alert_fail") => ~gas_line_notified'
        /\ (TempEvaluated /\ temp_sent' = "alert_fail") => ~temp_line_notified'
      ]_vars

\* gas has just entered the alarm and its alert broadcast failed
C25_Witness ==
    /\ pc = "dht"
    /\ gas_alarm_active
    /\ gas_entered
    /\ gas_sent = "alert_fail"
    /\ ~gas_line_notified

\* a threshold command of this iteration whose value int() / float() accepts
GasThresholdSet ==
    msg.json /\ msg.command = "set_gas_threshold" /\ ToInt(msg.value).ok
TempThresholdSet ==
    msg.json /\ msg.command = "set_temp_threshold" /\ ToFloat(msg.value).ok

\* C26: a threshold changes only when its command is applied, and the
\* evaluation that follows uses the new threshold: an Active alarm clears
\* exactly when the value is below the new threshold minus the hysteresis,
\* and a Normal one enters when the value is at or above the new threshold.
C26_NewThresholdUsedByNextEvaluation ==
    [][ /\ GAS_THRESHOLD' # GAS_THRESHOLD
             => (Delivered /\ msg'.json /\ msg'.command = "set_gas_threshold")
        /\ TEMP_THRESHOLD' # TEMP_THRESHOLD
             => (Delivered /\ msg'.json /\ msg'.command = "set_temp_threshold")
        /\ (GasEvaluated /\ GasThresholdSet)
             => LET new == ToInt(msg.value).n IN
                /\ GAS_THRESHOLD = new
                /\ gas_alarm_active =>
                     (~gas_alarm_active' <=> gas_data' < new - HYSTERESIS)
                /\ (~gas_alarm_active /\ gas_data' >= new) => gas_alarm_active'
        /\ (TempEvaluated /\ TempThresholdSet)
             => LET new == ToFloat(msg.value).n
                    v == temp_data'.temperature IN
                /\ ToFloat(msg.value).f = 0
                /\ TEMP_THRESHOLD = new
                /\ temp_alarm_active =>
                     (~temp_alarm_active' <=> v < new - TEMP_HYSTERESIS)
                /\ (~temp_alarm_active /\ v >= new) => temp_alarm_active'
        /\ GasEvaluated
             => /\ gas_alarm_active =>
                     (~gas_alarm_active' <=> gas_data' < GAS_THRESHOLD - HYSTERESIS)
                /\ (~gas_alarm_active /\ gas_data' >= GAS_THRESHOLD)
                     => gas_alarm_active'
        /\ TempEvaluated
             => LET v == temp_data'.temperature IN
                /\ temp_alarm_active =>
                     (~temp_alarm_active' <=> v < TEMP_THRESHOLD - TEMP_HYSTERESIS)
                /\ (~temp_alarm_active /\ v >= TEMP_THRESHOLD)
                     => temp_alarm_active'
      ]_vars

\* the threshold was raised to 1600 while the gas alarm was Active, and the
\* sample of 1400, which the threshold of 1500 would have kept Active,
\* cleared the alarm in the same iteration
C26_Witness ==
    /\ pc = "dht"
    /\ msg.json /\ msg.command = "set_gas_threshold" /\ msg.value = NumValue(1600)
    /\ GAS_THRESHOLD = 1600
    /\ gas_data = 1400
    /\ gas_log = "gas_clear"
    /\ ~gas_alarm_active

AlarmFlags ==
    <<gas_alarm_active, temp_alarm_active, gas_line_notified, temp_line_notified>>

\* C27: delivering a message to the command handler, whatever the command,
\* changes neither alarm state nor notified flag; the gas pair changes only
\* in a gas evaluation and the temperature pair only in a temperature
\* evaluation.
C27_CommandsLeaveAlarmFlags ==
    [][ /\ Delivered => UNCHANGED AlarmFlags
        /\ <<gas_alarm_active, gas_line_notified>>' # <<gas_alarm_active, gas_line_notified>>
             => GasEvaluated
        /\ <<temp_alarm_active, temp_line_notified>>' # <<temp_alarm_active, temp_line_notified>>
             => TempEvaluated
      ]_vars

\* reset has been applied while both alarms were Active and notified
C27_Witness ==
    /\ pc = "gas"
    /\ msg.json /\ msg.command = "reset"
    /\ gas_alarm_active /\ gas_line_notified
    /\ temp_alarm_active /\ temp_line_notified

\* C28: an evaluation hands publish_alarm_log the kind gas (temp) exactly
\* when it takes the state from Normal to Active, the kind gas_clear
\* (temp_clear) exactly when it takes it from Active to Normal, and nothing
\* when the state stays; no other step hands it anything. The kinds of one
\* quantity therefore alternate, the first being the alarm kind.
C28_OneLogPerTransition ==
    [][ /\ GasEvaluated
             => /\ gas_log = "none"
                /\ gas_log' = "gas" <=> (~gas_alarm_active /\ gas_alarm_active')
                /\ gas_log' = "gas_clear" <=> (gas_alarm_active /\ ~gas_alarm_active')
                /\ gas_log' = "none" <=> (gas_alarm_active' = gas_alarm_active)
        /\ TempEvaluated
             => /\ temp_log = "none"
                /\ temp_log' = "temp" <=> (~temp_alarm_active /\ temp_alarm_active')
                /\ temp_log' = "temp_clear" <=> (temp_alarm_active /\ ~temp_alarm_active')
                /\ temp_log' = "none" <=> (temp_alarm_active' = temp_alarm_active)
        /\ (gas_log' # gas_log /\ gas_log' # "none") => GasEvaluated
        /\ (temp_log' # temp_log /\ temp_log' # "none") => TempEvaluated
      ]_vars

\* one iteration in which gas cleared and temperature entered its alarm
C28_Witness ==
    /\ pc = "update_buzzer"
    /\ gas_log = "gas_clear" /\ ~gas_alarm_active
    /\ temp_log = "temp" /\ temp_alarm_active

\* C29: in every state a notified flag that is true belongs to an Active
\* alarm; a Normal quantity has its notified flag false.
C29_NotifiedImpliesActive ==
    /\ gas_line_notified => gas_alarm_active
    /\ temp_line_notified => temp_alarm_active

\* gas is Normal again after an episode whose alert had been delivered,
\* while temperature is Active and notified
C29_Witness ==
    /\ pc = "update_buzzer"
    /\ gas_sent \in {"clear_ok", "clear_fail"}
    /\ ~gas_alarm_active /\ ~gas_line_notified
    /\ temp_alarm_active /\ temp_line_notified

\* C30: manual_silence goes from true to false only when reset is applied or
\* when a quantity goes from Normal to Active; every other step, enable and
\* disable included, keeps a true manual_silence true.
C30_SilenceHeldUntilResetOrNewAlarm ==
    [][ (manual_silence /\ ~manual_silence')
          => \/ (Delivered /\ msg'.json /\ msg'.command = "reset")
             \/ (GasEvaluated /\ ~gas_alarm_active /\ gas_alarm_active')
             \/ (TempEvaluated /\ ~temp_alarm_active /\ temp_alarm_active')
      ]_vars

\* ------------------------------------------------ invalid samples (C32)

\* C32: a climate step whose sample has valid = false leaves the temperature
\* alarm state, the temperature notified flag and manual_silence as they
\* were, logs nothing and sends nothing.
C32_InvalidSampleNotEvaluated ==
    [][ (ClimateRead /\ ~temp_data'.valid)
          => /\ UNCHANGED <<temp_alarm_active, temp_line_notified, manual_silence>>
             /\ temp_log' = "none"
             /\ temp_sent' = "none"
      ]_vars

\* the read failed while the stored temperature had reached the threshold
\* lowered to it by command: the alarm is still Normal
C32_Witness ==
    /\ pc = "update_buzzer"
    /\ temp_data.read /\ ~temp_data.valid
    /\ temp_data.temperature = 35
    /\ TEMP_THRESHOLD = 35
    /\ ~temp_alarm_active

\* ------------------------------------- interrupts and read budget (C31, C33)

\* C31: a KeyboardInterrupt that arrives during the response read of a
\* notification is not absorbed by the call: the call hands no result back to
\* the alarm machine, the interrupt goes on to main() and ends the loop.
C31_InterruptNotSwallowed ==
    (http_pc = "done" /\ wire_end = "interrupt" /\ request # NoRequest)
      => returned \notin {"True", "False"}

\* C33: the response read loop always ends, whatever the peer does.
C33_ReadLoopTerminates == (http_pc = "read") ~> (http_pc = "done")

\* ------------------------------------------------ webhook signature (C34)

\* C34: with a channel secret configured, the webhook goes through the
\* events of a request, answers 200 or calls auto_reply only when the
\* request carries the signature of its body under the secret; every other
\* request is answered 403 with none of its events gone through.
C34_OnlySignedRequestsProcessed ==
    (LINE_CHANNEL_SECRET # ""
       /\ x_line_signature # hmac_sha256_b64(LINE_CHANNEL_SECRET, body))
      => /\ webhook_pc # "events"
         /\ handled = 0
         /\ replies = 0
         /\ webhook_pc = "done" => webhook_status = 403

====
